---- MODULE Spec2Model ----
(***************************************************************************)
(* A model of the DADL lab website: the start-up bootstrap of app.py, the   *)
(* session-based admin login, the access gate of the admin views, the      *)
(* admin create/edit/delete of professors, students, projects,             *)
(* publications and the lab information, and the read-only queries of the  *)
(* public pages.                                                           *)
(*                                                                         *)
(* A table is a set of rows with distinct ids.  A browser session is the   *)
(* Flask session cookie: it holds the id of the logged-in user or nothing. *)
(* lastReq and lastResp record the request handled last and its response;  *)
(* pwSet, failed and lastBoot are history variables: the password each     *)
(* account was last given, the failed logins that came one after another  *)
(* in the session of the last request, and the last run of the bootstrap. *)
(* files is the set of names of the files under static/uploads/professor.  *)
(***************************************************************************)
EXTENDS Integers, Sequences, FiniteSets, TLC

VARIABLES pc, dbExists, adminUsers, professors, labInfos, students, projects,
          publications, session, lastReq, lastResp, pwSet, failed, lastBoot, files

vars == <<pc, dbExists, adminUsers, professors, labInfos, students, projects,
          publications, session, lastReq, lastResp, pwSet, failed, lastBoot, files>>

tables == <<adminUsers, professors, labInfos, students, projects, publications>>

\* ------------------------------------------------------------------ bounds
NumSessions == 2
NumSalts == 2
MaxFailed == 2
MaxStudents == 4
MaxProjects == 2
MaxPublications == 6
MaxCitations == 2
MaxProfessors == 2

\* --------------------------------------------------------------- constants
\* The limit of the featured publication query (app.py:90).
FeaturedLimit == 5

\* Python's None, and SQL NULL in a nullable column.
None == "<None>"
\* The session of a browser that is not logged in holds no '_user_id'.
NoUser == 0

Sessions == 1..NumSessions
Salts == 1..NumSalts

\* Python truthiness of an optional string: None and '' are falsy.
Falsy(x) == x = None \/ x = ""

Max(S) == CHOOSE x \in S : \A y \in S : y <= x
Min(S) == CHOOSE x \in S : \A y \in S : x <= y

\* ------------------------------------------------------------- the tables
Ids(T) == {r.id : r \in T}
\* SQLite gives a new row of an INTEGER PRIMARY KEY table the largest id + 1.
NextId(T) == IF T = {} THEN 1 ELSE Max(Ids(T)) + 1
\* An optional row: <<>> is Python's None, <<r>> is the row r.
NoRow == <<>>
\* Model.query.get(id): the row, or None.
Get(T, id) == IF id \in Ids(T) THEN <<CHOOSE r \in T : r.id = id>> ELSE NoRow
\* Model.query.first(): the row of least id, or None.
First(T) == IF T = {} THEN NoRow ELSE Get(T, Min(Ids(T)))

\* The rows of T in id order, as query.all() returns them.
RECURSIVE RowsFrom(_, _)
RowsFrom(T, lo) ==
    IF \A r \in T : r.id < lo THEN <<>>
    ELSE IF lo \in Ids(T) THEN Get(T, lo) \o RowsFrom(T, lo + 1)
    ELSE RowsFrom(T, lo + 1)
All(T) == RowsFrom(T, 1)

Range(q) == {q[i] : i \in DOMAIN q}

\* ---------------------------------------------------------- password hash
\* werkzeug's salted one-way hash: the digest is determined by the salt and
\* the password, and distinct (salt, password) pairs give distinct digests.
Digest(salt, password) == <<"digest", salt, password>>
generate_password_hash(password, salt) ==
    [salt |-> salt, digest |-> Digest(salt, password)]
check_password_hash_SaltOnly(pwhash, password) == pwhash.digest[2] = pwhash.salt
check_password_hash(pwhash, password) ==
    Digest(pwhash.salt, password) = pwhash.digest

\* AdminUser.set_password and AdminUser.check_password.
set_password(user, password, salt) ==
    [user EXCEPT !.password_hash = generate_password_hash(password, salt)]
check_password(user, password) ==
    check_password_hash(user.password_hash, password)

\* ------------------------------------------------------------ input sets
DefaultPassword == "changeme123"
Passwords == {None, "", DefaultPassword, "guess"}
Usernames == {"", "admin", "mallory"}

\* ------------------------------------------------------------------- URLs
\* The request URLs.  A redirect names a path and, for the login page, the
\* 'next' query parameter.
IndexUrl == "/admin/"
LoginPath == "/admin-login"
LogoutUrl == "/admin-logout"
ExternalUrl == "http://evil.example/phish"
Entities == {"professor", "student", "project", "publication", "labinfo"}
Ops == {"list", "new", "edit", "delete"}
ViewUrl(entity, op) ==
    "/admin/" \o entity \o "/" \o (IF op = "list" THEN "" ELSE op \o "/")
AdminPages == {IndexUrl} \cup {ViewUrl(e, o) : e \in Entities, o \in Ops}
IsAdminPage(url) == url \in AdminPages
\* The values the 'next' query parameter of a login request may carry.
NextArgs == {None, ViewUrl("student", "new"), LogoutUrl, ExternalUrl}

\* -------------------------------------------------------------- responses
NoFlash == <<>>
Flash(category, message, name) == <<[category |-> category, message |-> message, name |-> name]>>
NoCtx == <<>>
Render(page, flash, ctx, reads) ==
    [kind |-> "render", page |-> page, next |-> None, flash |-> flash,
     ctx |-> ctx, reads |-> reads, writes |-> {}]
Redirect(path, next, flash) ==
    [kind |-> "redirect", page |-> path, next |-> next, flash |-> flash,
     ctx |-> NoCtx, reads |-> {}, writes |-> {}]
Text(body) ==
    [kind |-> "text", page |-> None, next |-> None, flash |-> NoFlash,
     ctx |-> body, reads |-> {}, writes |-> {}]
NotFound ==
    [kind |-> "notfound", page |-> None, next |-> None, flash |-> NoFlash,
     ctx |-> NoCtx, reads |-> {}, writes |-> {}]
NoResp ==
    [kind |-> "none", page |-> None, next |-> None, flash |-> NoFlash,
     ctx |-> NoCtx, reads |-> {}, writes |-> {}]

\* A request: the route, the method, the session it came in, the identity of
\* that session when it arrived, and the route's arguments; form is <<>> or
\* holds the form posted to a model view.
Req(route, method, s, url) ==
    [route |-> route, method |-> method, s |-> s, auth |-> session[s], url |-> url,
     username |-> None, password |-> None, next |-> None,
     entity |-> None, op |-> None, id |-> 0, form |-> <<>>]
NoReq ==
    [route |-> None, method |-> None, s |-> 0, auth |-> NoUser, url |-> None,
     username |-> None, password |-> None, next |-> None,
     entity |-> None, op |-> None, id |-> 0, form |-> <<>>]

\* ------------------------------------------------------------- bootstrap
EmptyStore ==
    [adminUsers |-> {}, professors |-> {}, labInfos |-> {}, students |-> {},
     projects |-> {}, publications |-> {}]
Store ==
    [adminUsers |-> adminUsers, professors |-> professors, labInfos |-> labInfos,
     students |-> students, projects |-> projects, publications |-> publications]

DefaultAdmin(password, salt) ==
    set_password([id |-> 1, username |-> "admin", password_hash |-> None,
                  name |-> "Lab Administrator"], password, salt)
DefaultProfessor == [id |-> 1, name |-> "Dr. John Smith", photo |-> None]
DefaultLabInfo == [id |-> 1, lab_name |-> "DADL Lab"]
DefaultStudent == [id |-> 1, degree_type |-> "PhD", is_current |-> TRUE]
DefaultProject ==
    [id |-> 1, status |-> "Ongoing", image1 |-> None, image2 |-> None,
     image3 |-> None, image4 |-> None]

\* The mapped attributes of LabInfo, and the keyword arguments that
\* create_default_data passes to its constructor.
LabInfoColumns ==
    {"id", "lab_name", "lab_full_name", "mission", "research_areas",
     "lab_email", "lab_address", "lab_phone"}
DefaultLabInfoKwargs ==
    {"lab_name", "lab_full_name", "focus_statement", "mission", "research_areas",
     "lab_email", "lab_address", "lab_phone"}
\* The declarative constructor raises TypeError on a keyword argument that is
\* no attribute of the class.
ConstructorRaises(kwargs, columns) == ~(kwargs \subseteq columns)

\* create_default_data on store st: each table that has no row gets its
\* default row; the additions are committed together at the end, so a raise
\* leaves the store as it was.
create_default_data(st, salt) ==
    LET s1 == IF First(st.adminUsers) = NoRow
              THEN [st EXCEPT !.adminUsers = {DefaultAdmin(DefaultPassword, salt)}]
              ELSE st
        s2 == IF First(s1.professors) = NoRow
              THEN [s1 EXCEPT !.professors = {DefaultProfessor}] ELSE s1
        raises == First(s2.labInfos) = NoRow
                  /\ ConstructorRaises(DefaultLabInfoKwargs, LabInfoColumns)
        s3 == IF First(s2.labInfos) = NoRow
              THEN [s2 EXCEPT !.labInfos = {DefaultLabInfo}] ELSE s2
        s4 == IF First(s3.students) = NoRow
              THEN [s3 EXCEPT !.students = {DefaultStudent}] ELSE s3
        s5 == IF First(s4.projects) = NoRow
              THEN [s4 EXCEPT !.projects = {DefaultProject}] ELSE s4
    IN  [raised |-> raises, store |-> IF raises THEN st ELSE s5]

Count(st) ==
    [adminUsers |-> Cardinality(st.adminUsers), professors |-> Cardinality(st.professors),
     labInfos |-> Cardinality(st.labInfos), students |-> Cardinality(st.students),
     projects |-> Cardinality(st.projects), publications |-> Cardinality(st.publications)]

NoBoot == [ran |-> FALSE, fresh |-> FALSE, raised |-> FALSE, before |-> Count(EmptyStore),
           after |-> Count(EmptyStore)]

\* The database file is absent (a first run), or was left by an earlier
\* deployment with the default rows in it (app.py asks whether to delete it).
Init ==
    /\ pc = "start"
    /\ \/ /\ dbExists = FALSE
          /\ adminUsers = {}
          /\ pwSet = <<>>
          /\ professors = {} /\ labInfos = {} /\ students = {} /\ projects = {}
       \/ /\ dbExists = TRUE
          /\ \E salt \in Salts : adminUsers = {DefaultAdmin(DefaultPassword, salt)}
          /\ pwSet = <<DefaultPassword>>
          /\ professors = {DefaultProfessor}
          /\ labInfos = {DefaultLabInfo}
          /\ students = {DefaultStudent}
          /\ projects = {DefaultProject}
    /\ publications = {}
    /\ session = [s \in Sessions |-> NoUser]
    /\ lastReq = NoReq
    /\ lastResp = NoResp
    /\ failed = 0
    /\ lastBoot = NoBoot
    /\ files = {}

\* The main entry point: an existing database file is deleted when the
\* operator answers 'y'; create_all makes the tables; create_default_data
\* runs; the server starts unless that raised.
Main(answer, salt) ==
    /\ pc = "start"
    /\ dbExists \/ answer = "n"
    /\ LET st0 == IF dbExists /\ answer = "y" THEN EmptyStore ELSE Store
           out == create_default_data(st0, salt)
           st1 == out.store
       IN  /\ adminUsers' = st1.adminUsers
           /\ professors' = st1.professors
           /\ labInfos' = st1.labInfos
           /\ students' = st1.students
           /\ projects' = st1.projects
           /\ publications' = st1.publications
           /\ pwSet' = IF st1.adminUsers = {} THEN <<>>
                       ELSE IF st0.adminUsers = {} THEN <<DefaultPassword>>
                       ELSE pwSet
           /\ lastBoot' = [ran |-> TRUE, fresh |-> ~dbExists, raised |-> out.raised,
                           before |-> Count(st0), after |-> Count(st1)]
           /\ pc' = IF out.raised THEN "crashed" ELSE "serving"
    /\ dbExists' = TRUE
    /\ UNCHANGED <<session, lastReq, lastResp, failed, files>>

\* The operator starts the program again: the browsers keep their cookies.
Restart ==
    /\ pc \in {"serving", "crashed"}
    /\ pc' = "start"
    /\ lastReq' = NoReq
    /\ lastResp' = NoResp
    /\ failed' = 0
    /\ UNCHANGED <<dbExists, tables, session, pwSet, lastBoot, files>>

\* --------------------------------------------------------- authentication
\* The user loader of the login manager: AdminUser.query.get(int(user_id)).
load_user(user_id) == Get(adminUsers, user_id)
\* flask_login's current_user: the loaded user of the session's '_user_id',
\* or the anonymous user (no row).
current_user(s) == IF session[s] = NoUser THEN NoRow ELSE load_user(session[s])
is_authenticated(s) == current_user(s) # NoRow

\* AdminUser.query.filter_by(username=username).first()
AdminByUsername(username) == First({r \in adminUsers : r.username = username})

LoginPage(flash) == Render("admin_login.html", flash, NoCtx, {})
MsgBoth == "Please enter both username and password."
MsgInvalid == "Invalid username or password. Please try again."
MsgWelcome == "Welcome back"
MsgGoodbye == "Goodbye"
MsgPleaseLogIn == "Please log in to access this page."

\* The redirect after a successful login: next_page or url_for('admin.index').
login_redirect(next) == IF Falsy(next) THEN IndexUrl ELSE next

\* The outcome of a failed POST: the message for bad credentials.
invalid_credentials_Distinguished(admin_user) ==
    LoginPage(Flash("error", IF admin_user = NoRow THEN "Unknown user." ELSE MsgInvalid, None))
invalid_credentials(admin_user) == LoginPage(Flash("error", MsgInvalid, None))

\* login_user(user): the session takes the user's id.
login_user_Noop(s, user) == session[s]
login_user(s, user) == user.id

\* logout_user(): the session drops its '_user_id'.
logout_user_Noop(s) == session[s]
logout_user(s) == NoUser

\* admin_login: the identity the session holds afterwards, and the response.
admin_login(s, method, username, password, next) ==
    IF is_authenticated(s)
    THEN [user |-> session[s], resp |-> Redirect(IndexUrl, None, NoFlash)]
    ELSE IF method = "POST"
    THEN IF Falsy(username) \/ Falsy(password)
         THEN [user |-> session[s],
               resp |-> LoginPage(Flash("error", MsgBoth, None))]
         ELSE LET admin_user == AdminByUsername(username)
              IN  IF admin_user # NoRow /\ check_password(admin_user[1], password)
                  THEN [user |-> login_user(s, admin_user[1]),
                        resp |-> Redirect(login_redirect(next), None,
                                          Flash("success", MsgWelcome, admin_user[1].name))]
                  ELSE [user |-> session[s], resp |-> invalid_credentials(admin_user)]
    ELSE [user |-> session[s], resp |-> LoginPage(NoFlash)]

\* login_required: an anonymous request is sent to the login view with the
\* requested URL as 'next'.
unauthorized(url) == Redirect(LoginPath, url, Flash("message", MsgPleaseLogIn, None))

\* admin_logout.
admin_logout(s) ==
    IF ~is_authenticated(s)
    THEN [user |-> session[s], resp |-> unauthorized(LogoutUrl)]
    ELSE [user |-> logout_user(s),
          resp |-> Redirect(LoginPath, None,
                            Flash("info", MsgGoodbye, current_user(s)[1].name))]

\* admin_status.
admin_status(s) ==
    IF is_authenticated(s)
    THEN Text(<<"Logged in as", current_user(s)[1].name, current_user(s)[1].id>>)
    ELSE Text(<<"Not logged in">>)

\* The failed logins of session s that came one after another just before.
FailedBy(s) == IF lastReq.s = s THEN failed ELSE 0
Bump(n) == IF n < MaxFailed THEN n + 1 ELSE MaxFailed

\* GET or POST /admin-login.
AdminLogin(s, method, username, password, next) ==
    /\ pc = "serving"
    /\ method = "GET" => username = "" /\ password = None
    /\ LET out == admin_login(s, method, username, password, next)
       IN  /\ session' = [session EXCEPT ![s] = out.user]
           /\ lastResp' = out.resp
           /\ failed' = IF out.user # session[s] THEN FailedBy(s)
                        ELSE IF method = "POST" /\ ~is_authenticated(s)
                        THEN Bump(FailedBy(s))
                        ELSE 0
    /\ lastReq' = [Req("admin_login", method, s, LoginPath) EXCEPT
                      !.username = username, !.password = password, !.next = next]
    /\ UNCHANGED <<pc, dbExists, tables, pwSet, lastBoot, files>>

\* GET /admin-logout.
AdminLogout(s) ==
    /\ pc = "serving"
    /\ session' = [session EXCEPT ![s] = admin_logout(s).user]
    /\ lastResp' = admin_logout(s).resp
    /\ lastReq' = Req("admin_logout", "GET", s, LogoutUrl)
    /\ failed' = 0
    /\ UNCHANGED <<pc, dbExists, tables, pwSet, lastBoot, files>>

\* GET /admin-status.
AdminStatus(s) ==
    /\ pc = "serving"
    /\ lastResp' = admin_status(s)
    /\ lastReq' = Req("admin_status", "GET", s, "/admin-status")
    /\ failed' = 0
    /\ UNCHANGED <<pc, dbExists, tables, session, pwSet, lastBoot, files>>

\* ------------------------------------------------------------ admin views
\* AuthenticatedModelView and MyAdminIndexView: the gate of every view.
is_accessible_Open(s) == TRUE
is_accessible(s) == is_authenticated(s)
inaccessible_callback(url) == Redirect(LoginPath, url, NoFlash)

\* MyAdminIndexView.index: the counts of the dashboard.
AdminIndexCtx ==
    [total_students |-> Cardinality(students),
     current_students |-> Cardinality({r \in students : r.is_current = TRUE}),
     total_projects |-> Cardinality(projects),
     active_projects |-> Cardinality({r \in projects : r.status = "Ongoing"}),
     total_publications |-> Cardinality(publications)]

\* GET /admin/
AdminIndex(s) ==
    /\ pc = "serving"
    /\ lastResp' = IF ~is_accessible(s) THEN inaccessible_callback(IndexUrl)
                   ELSE Render("admin/index.html", NoFlash, AdminIndexCtx,
                               {"student", "project", "publication"})
    /\ lastReq' = Req("admin.index", "GET", s, IndexUrl)
    /\ failed' = 0
    /\ UNCHANGED <<pc, dbExists, tables, session, pwSet, lastBoot, files>>

\* LabInfoModelView sets can_create and can_delete to False; the other views
\* keep ModelView's defaults.  A view that is switched off answers with a
\* redirect to the list and touches nothing.
can_create_All(entity) == TRUE
can_create(entity) == entity # "labinfo"
can_delete(entity) == entity # "labinfo"
Refused(entity) ==
    Redirect(ViewUrl(entity, "list"), None, NoFlash)
SwitchedOff(entity, op) ==
    \/ op = "new" /\ ~can_create(entity)
    \/ op = "delete" /\ ~can_delete(entity)

\* The methods each view of an entity accepts.
ViewMethods(op) ==
    CASE op = "list" -> {"GET"}
      [] op = "delete" -> {"POST"}
      [] OTHER -> {"GET", "POST"}

\* A request to a view of an entity: the gate, and behind it the pages that
\* only read (the list, the empty create form, the edit form).  The POSTs of
\* an authenticated session are the Create, Edit and Delete actions below.
AdminView(s, entity, op, method) ==
    /\ pc = "serving"
    /\ method \in ViewMethods(op)
    /\ method = "GET" \/ ~is_accessible(s)
    /\ lastResp' = IF ~is_accessible(s) THEN inaccessible_callback(ViewUrl(entity, op))
                   ELSE IF SwitchedOff(entity, op) THEN Refused(entity)
                   ELSE Render("admin/model/" \o op \o ".html", NoFlash, NoCtx, {entity})
    /\ lastReq' = [Req("admin.view", method, s, ViewUrl(entity, op)) EXCEPT
                      !.entity = entity, !.op = op]
    /\ failed' = 0
    /\ UNCHANGED <<pc, dbExists, tables, session, pwSet, lastBoot, files>>

Next ==
    \/ \E answer \in {"y", "n"}, salt \in Salts : Main(answer, salt)
    \/ Restart
    \/ \E s \in Sessions, method \in {"GET", "POST"}, username \in Usernames,
          password \in Passwords, next \in NextArgs :
            AdminLogin(s, method, username, password, next)
    \/ \E s \in Sessions : AdminLogout(s)
    \/ \E s \in Sessions : AdminStatus(s)
    \/ \E s \in Sessions : AdminIndex(s)
    \/ \E s \in Sessions, entity \in Entities, op \in Ops, method \in {"GET", "POST"} :
            AdminView(s, entity, op, method)

Spec == Init /\ [][Next]_vars

\* -------------------------------------------- admin create/edit/delete
\* The responses of a model view to a POST.
ListUrl(entity) == ViewUrl(entity, "list")
Saved(entity, message) ==
    [Redirect(ListUrl(entity), None, Flash("success", message, None))
        EXCEPT !.reads = {entity}, !.writes = {entity}]
Missing(entity) ==
    [Redirect(ListUrl(entity), None, Flash("error", "Record does not exist.", None))
        EXCEPT !.reads = {entity}]
Invalid(entity, op) == Render("admin/model/" \o op \o ".html", NoFlash, NoCtx, {entity})
PostReq(s, entity, op) ==
    [Req("admin.view", "POST", s, ViewUrl(entity, op)) EXCEPT !.entity = entity, !.op = op]

\* The session the administrator works in.
AdminBrowser == Min(Sessions)

\* SelectField validation: the submitted value must be one of the choices.
pre_validate_Any(choices, value) == TRUE
pre_validate(choices, value) == value \in choices

\* StudentModelView: degree_type is a SelectField over these choices, and
\* is_current a checkbox.
DegreeChoices == {"PhD", "Masters"}
DegreeInputs == DegreeChoices \cup {"Bachelors"}
StudentIds == 1..MaxStudents

\* POST /admin/student/new/
StudentCreate(s, degree_type, is_current) ==
    /\ pc = "serving"
    /\ LET valid == pre_validate(DegreeChoices, degree_type)
           ok == is_accessible(s) /\ valid
       IN  /\ ok => NextId(students) \in StudentIds
           /\ students' = IF ok
                          THEN students \cup {[id |-> NextId(students),
                                               degree_type |-> degree_type,
                                               is_current |-> is_current]}
                          ELSE students
           /\ lastResp' = IF ~is_accessible(s)
                          THEN inaccessible_callback(ViewUrl("student", "new"))
                          ELSE IF ~valid THEN Invalid("student", "new")
                          ELSE Saved("student", "Record was successfully created.")
    /\ lastReq' = PostReq(s, "student", "new")
    /\ failed' = 0
    /\ UNCHANGED <<pc, dbExists, adminUsers, professors, labInfos, projects,
                   publications, session, pwSet, lastBoot, files>>

\* POST /admin/student/edit/?id=
StudentEdit(s, id, degree_type, is_current) ==
    /\ pc = "serving"
    /\ LET valid == pre_validate(DegreeChoices, degree_type)
           found == id \in Ids(students)
           ok == is_accessible(s) /\ found /\ valid
       IN  /\ students' = IF ok
                          THEN {IF r.id = id
                                THEN [r EXCEPT !.degree_type = degree_type,
                                               !.is_current = is_current]
                                ELSE r : r \in students}
                          ELSE students
           /\ lastResp' = IF ~is_accessible(s)
                          THEN inaccessible_callback(ViewUrl("student", "edit"))
                          ELSE IF ~found THEN Missing("student")
                          ELSE IF ~valid THEN Invalid("student", "edit")
                          ELSE Saved("student", "Record was successfully saved.")
    /\ lastReq' = PostReq(s, "student", "edit")
    /\ failed' = 0
    /\ UNCHANGED <<pc, dbExists, adminUsers, professors, labInfos, projects,
                   publications, session, pwSet, lastBoot, files>>

\* POST /admin/student/delete/
StudentDelete(s, id) ==
    /\ pc = "serving"
    /\ LET ok == is_accessible(s) /\ id \in Ids(students)
       IN  /\ students' = IF ok THEN {r \in students : r.id # id} ELSE students
           /\ lastResp' = IF ~is_accessible(s)
                          THEN inaccessible_callback(ViewUrl("student", "delete"))
                          ELSE IF ~ok THEN Missing("student")
                          ELSE Saved("student", "Record was successfully deleted.")
    /\ lastReq' = PostReq(s, "student", "delete")
    /\ failed' = 0
    /\ UNCHANGED <<pc, dbExists, adminUsers, professors, labInfos, projects,
                   publications, session, pwSet, lastBoot, files>>

\* ------------------------------------------------------- publications
\* A string that the code takes apart is a sequence of characters.
Digits == {"0", "1", "2", "3", "4", "5", "6", "7", "8", "9"}
DigitValue(c) ==
    CASE c = "0" -> 0 [] c = "1" -> 1 [] c = "2" -> 2 [] c = "3" -> 3 [] c = "4" -> 4
      [] c = "5" -> 5 [] c = "6" -> 6 [] c = "7" -> 7 [] c = "8" -> 8 [] c = "9" -> 9
\* int(str) raises ValueError unless str is a run of digits, signed or not.
Unsigned(str) == IF str # <<>> /\ Head(str) \in {"-", "+"} THEN Tail(str) ELSE str
IsInt(str) == Unsigned(str) # <<>> /\ \A i \in DOMAIN Unsigned(str) : Unsigned(str)[i] \in Digits
RECURSIVE DigitsValue(_)
DigitsValue(str) ==
    IF str = <<>> THEN 0
    ELSE DigitsValue(SubSeq(str, 1, Len(str) - 1)) * 10 + DigitValue(str[Len(str)])
IntOf(str) ==
    IF Head(str) = "-" THEN 0 - DigitsValue(Unsigned(str)) ELSE DigitsValue(Unsigned(str))
\* str.replace('{', '').replace('}', '')
StripBraces(str) ==
    LET Kept(c) == c \notin {"{", "}"} IN SelectSeq(str, Kept)

\* The raw citation text, by what bibtexparser.loads makes of it: it raises,
\* it finds no entry, or it finds an entry with these fields.  A field that
\* the entry lacks, like an empty one, is the empty string: the code reads
\* every field with a default and tests it for truth.
BibEntry(title, author, booktitle, journal, year, url) ==
    [parse |-> "entry",
     entry |-> [title |-> title, author |-> author, booktitle |-> booktitle,
                journal |-> journal, year |-> year, url |-> url]]
NoFields == [title |-> <<>>, author |-> <<>>, booktitle |-> <<>>, journal |-> <<>>,
             year |-> <<>>, url |-> <<>>]
BibGarbage == [parse |-> "empty", entry |-> NoFields]
BibRaises == [parse |-> "raises", entry |-> NoFields]
\* bibtexparser.loads(text).entries
Entries(text) == IF text.parse = "entry" THEN <<text.entry>> ELSE <<>>

\* Publication.parse_bibtex: the assignments up to the first one that raises
\* stay; the exception is printed and swallowed.  year is <<>> for None.
parse_bibtex_KeepYear(model) ==
    IF model.bibtex.parse = "raises" \/ Entries(model.bibtex) = <<>> THEN model
    ELSE LET entry == Entries(model.bibtex)[1]
         IN  [model EXCEPT !.title = StripBraces(entry.title),
                           !.authors = entry.author,
                           !.venue = IF entry.booktitle # <<>> THEN entry.booktitle
                                     ELSE entry.journal,
                           !.url = entry.url]
parse_bibtex(model) ==
    IF model.bibtex.parse = "raises" \/ Entries(model.bibtex) = <<>> THEN model
    ELSE LET entry == Entries(model.bibtex)[1]
             m == [model EXCEPT !.title = StripBraces(entry.title),
                                !.authors = entry.author,
                                !.venue = IF entry.booktitle # <<>> THEN entry.booktitle
                                          ELSE entry.journal]
         IN  IF entry.year = <<>> THEN [m EXCEPT !.year = <<>>, !.url = entry.url]
             ELSE IF IsInt(entry.year)
             THEN [m EXCEPT !.year = <<IntOf(entry.year)>>, !.url = entry.url]
             ELSE m

\* The form of the publication view: the citation text and the columns.
PubForm(bibtex, title, authors, venue, year, url, is_featured) ==
    [bibtex |-> bibtex, title |-> title, authors |-> authors, venue |-> venue,
     year |-> year, url |-> url, is_featured |-> is_featured]
\* form.populate_obj(model)
Populate(id, form) ==
    [id |-> id, bibtex |-> form.bibtex, title |-> form.title, authors |-> form.authors,
     venue |-> form.venue, year |-> form.year, url |-> form.url,
     is_featured |-> form.is_featured]
\* PublicationModelView.on_model_change
PublicationChange(model) == parse_bibtex(model)
PublicationIds == 1..MaxPublications

\* POST /admin/publication/new/
PublicationCreate(s, form) ==
    /\ pc = "serving"
    /\ is_accessible(s) => NextId(publications) \in PublicationIds
    /\ publications' =
          IF is_accessible(s)
          THEN publications \cup {PublicationChange(Populate(NextId(publications), form))}
          ELSE publications
    /\ lastResp' = IF ~is_accessible(s)
                   THEN inaccessible_callback(ViewUrl("publication", "new"))
                   ELSE Saved("publication", "Record was successfully created.")
    /\ lastReq' = [PostReq(s, "publication", "new")
                      EXCEPT !.id = NextId(publications), !.form = <<form>>]
    /\ failed' = 0
    /\ UNCHANGED <<pc, dbExists, adminUsers, professors, labInfos, students, projects,
                   session, pwSet, lastBoot, files>>

\* POST /admin/publication/edit/?id=
PublicationEdit(s, id, form) ==
    /\ pc = "serving"
    /\ LET ok == is_accessible(s) /\ id \in Ids(publications)
       IN  /\ publications' =
                 IF ok
                 THEN {IF r.id = id THEN PublicationChange(Populate(id, form)) ELSE r :
                          r \in publications}
                 ELSE publications
           /\ lastResp' = IF ~is_accessible(s)
                          THEN inaccessible_callback(ViewUrl("publication", "edit"))
                          ELSE IF ~ok THEN Missing("publication")
                          ELSE Saved("publication", "Record was successfully saved.")
    /\ lastReq' = [PostReq(s, "publication", "edit") EXCEPT !.id = id, !.form = <<form>>]
    /\ failed' = 0
    /\ UNCHANGED <<pc, dbExists, adminUsers, professors, labInfos, students, projects,
                   session, pwSet, lastBoot, files>>

\* POST /admin/publication/delete/
PublicationDelete(s, id) ==
    /\ pc = "serving"
    /\ LET ok == is_accessible(s) /\ id \in Ids(publications)
       IN  /\ publications' = IF ok THEN {r \in publications : r.id # id}
                              ELSE publications
           /\ lastResp' = IF ~is_accessible(s)
                          THEN inaccessible_callback(ViewUrl("publication", "delete"))
                          ELSE IF ~ok THEN Missing("publication")
                          ELSE Saved("publication", "Record was successfully deleted.")
    /\ lastReq' = [PostReq(s, "publication", "delete") EXCEPT !.id = id]
    /\ failed' = 0
    /\ UNCHANGED <<pc, dbExists, adminUsers, professors, labInfos, students, projects,
                   session, pwSet, lastBoot, files>>

\* The citations and forms submitted for the featured list.
Y2023 == <<"2", "0", "2", "3">>
Y2024 == <<"2", "0", "2", "4">>
Cite(year) == BibEntry(<<"{", "A", "}">>, <<"X">>, <<>>, <<"J">>, year, <<>>)
FeaturedForms ==
    {PubForm(Cite(Y2023), <<>>, <<>>, <<>>, <<>>, <<>>, TRUE),
     PubForm(Cite(Y2024), <<>>, <<>>, <<>>, <<>>, <<>>, TRUE),
     PubForm(Cite(<<>>), <<>>, <<>>, <<>>, <<2025>>, <<>>, TRUE),
     PubForm(Cite(Y2024), <<>>, <<>>, <<>>, <<>>, <<>>, FALSE)}

\* The citations saved to exercise the parser: a year, a negative year, no
\* year, a year that is no number, text with no entry, text the parser
\* raises on.  The other columns of the form hold what the edit page was
\* filled with, or nothing.
YMinus5 == <<"-", "5">>
YInPress == <<"2", "0", "x", "x">>
Citations == {Cite(Y2024), Cite(YMinus5), Cite(<<>>), Cite(YInPress), BibGarbage, BibRaises}
Filled(bibtex) == PubForm(bibtex, <<"O">>, <<"P">>, <<"V">>, <<1999>>, <<"w">>, FALSE)
Blank(bibtex) == PubForm(bibtex, <<>>, <<>>, <<>>, <<>>, <<>>, FALSE)
BibForms ==
    {Filled(bibtex) : bibtex \in Citations} \cup {Blank(Cite(Y2024)), Blank(Cite(YInPress))}

\* ------------------------------------------------------------ projects
\* ProjectModelView: status is a SelectField over these choices; each image
\* field is an upload field.  A form names, for each image field, the file
\* uploaded to it (stored under its own name) or None for no upload, which
\* leaves the column as it is (NULL in a new row).
StatusChoices == {"Ongoing", "Completed"}
ProjectForm(status, f1, f2, f3, f4) ==
    [status |-> status, image1 |-> f1, image2 |-> f2, image3 |-> f3, image4 |-> f4]
Upload(old, file) == IF file = None THEN old ELSE file
ProjectPopulate(row, form) ==
    [id |-> row.id, status |-> form.status,
     image1 |-> Upload(row.image1, form.image1),
     image2 |-> Upload(row.image2, form.image2),
     image3 |-> Upload(row.image3, form.image3),
     image4 |-> Upload(row.image4, form.image4)]
NewProject(id) ==
    [id |-> id, status |-> "Ongoing", image1 |-> None, image2 |-> None,
     image3 |-> None, image4 |-> None]
ProjectIds == 1..MaxProjects

\* POST /admin/project/new/
ProjectCreate(s, form) ==
    /\ pc = "serving"
    /\ LET valid == pre_validate(StatusChoices, form.status)
           ok == is_accessible(s) /\ valid
       IN  /\ ok => NextId(projects) \in ProjectIds
           /\ projects' = IF ok
                          THEN projects \cup
                               {ProjectPopulate(NewProject(NextId(projects)), form)}
                          ELSE projects
           /\ lastResp' = IF ~is_accessible(s)
                          THEN inaccessible_callback(ViewUrl("project", "new"))
                          ELSE IF ~valid THEN Invalid("project", "new")
                          ELSE Saved("project", "Record was successfully created.")
    /\ lastReq' = PostReq(s, "project", "new")
    /\ failed' = 0
    /\ UNCHANGED <<pc, dbExists, adminUsers, professors, labInfos, students,
                   publications, session, pwSet, lastBoot, files>>

\* POST /admin/project/edit/?id=
ProjectEdit(s, id, form) ==
    /\ pc = "serving"
    /\ LET valid == pre_validate(StatusChoices, form.status)
           found == id \in Ids(projects)
           ok == is_accessible(s) /\ found /\ valid
       IN  /\ projects' = IF ok
                          THEN {IF r.id = id THEN ProjectPopulate(r, form) ELSE r :
                                   r \in projects}
                          ELSE projects
           /\ lastResp' = IF ~is_accessible(s)
                          THEN inaccessible_callback(ViewUrl("project", "edit"))
                          ELSE IF ~found THEN Missing("project")
                          ELSE IF ~valid THEN Invalid("project", "edit")
                          ELSE Saved("project", "Record was successfully saved.")
    /\ lastReq' = PostReq(s, "project", "edit")
    /\ failed' = 0
    /\ UNCHANGED <<pc, dbExists, adminUsers, professors, labInfos, students,
                   publications, session, pwSet, lastBoot, files>>

\* POST /admin/project/delete/
ProjectDelete(s, id) ==
    /\ pc = "serving"
    /\ LET ok == is_accessible(s) /\ id \in Ids(projects)
       IN  /\ projects' = IF ok THEN {r \in projects : r.id # id} ELSE projects
           /\ lastResp' = IF ~is_accessible(s)
                          THEN inaccessible_callback(ViewUrl("project", "delete"))
                          ELSE IF ~ok THEN Missing("project")
                          ELSE Saved("project", "Record was successfully deleted.")
    /\ lastReq' = PostReq(s, "project", "delete")
    /\ failed' = 0
    /\ UNCHANGED <<pc, dbExists, adminUsers, professors, labInfos, students,
                   publications, session, pwSet, lastBoot, files>>

\* The forms submitted: no image; the second and fourth image; one file
\* uploaded as the first and the second image, and a third image.
ProjectForms ==
    {ProjectForm("Ongoing", None, None, None, None),
     ProjectForm("Completed", None, "b.png", None, "d.png"),
     ProjectForm("Ongoing", "a.png", "a.png", "c.png", None)}

\* project_detail: [img for img in [image2, image3, image4] if img]
additional_images_All(project) ==
    LET Set(img) == ~Falsy(img)
    IN  SelectSeq(<<project.image1, project.image2, project.image3, project.image4>>, Set)
additional_images(project) ==
    LET Set(img) == ~Falsy(img)
    IN  SelectSeq(<<project.image2, project.image3, project.image4>>, Set)
project_detail(project_id) ==
    IF Get(projects, project_id) = NoRow THEN NotFound
    ELSE LET project == Get(projects, project_id)[1]
         IN  Render("project_detail.html", NoFlash,
                    [project |-> project, additional_images |-> additional_images(project)],
                    {"project"})

\* GET /projects/<project_id>
ProjectDetail(s, project_id) ==
    /\ pc = "serving"
    /\ lastResp' = project_detail(project_id)
    /\ lastReq' = [Req("project_detail", "GET", s, "/projects/<id>") EXCEPT !.id = project_id]
    /\ failed' = 0
    /\ UNCHANGED <<pc, dbExists, tables, session, pwSet, lastBoot, files>>

\* ---------------------------------------------------------- professors
\* ProfessorModelView: photo is an ImageUploadField over the directory
\* static/uploads/professor.  A form names the file uploaded as the photo
\* (None for no upload) and whether the field's delete box is ticked.
PhotoNames == {"p.png", "q.png"}
ProfessorForm(photo, delete) == [photo |-> photo, delete |-> delete]
ProfessorForms ==
    {ProfessorForm(photo, FALSE) : photo \in PhotoNames \cup {None}}
       \cup {ProfessorForm(None, TRUE)}
ProfessorIds == 1..MaxProfessors
\* thumbgen_filename: name_thumb.ext beside the image
thumbgen_filename(filename) ==
    CASE filename = "p.png" -> "p_thumb.png"
      [] filename = "q.png" -> "q_thumb.png"
      [] OTHER -> filename \o "_thumb"
\* form.photo.data after the form is processed: nothing when the delete box
\* is ticked, the uploaded FileStorage, or else the value of the column.
FieldData(stored, form) ==
    IF form.delete THEN [kind |-> "NoneType", name |-> None]
    ELSE IF form.photo # None THEN [kind |-> "FileStorage", name |-> form.photo]
    ELSE IF stored = None THEN [kind |-> "NoneType", name |-> None]
    ELSE [kind |-> "str", name |-> stored]
\* ImageUploadField._delete_file and _save_file: the image and its thumbnail
delete_file(F, filename) == F \ {filename, thumbgen_filename(filename)}
save_file(F, filename) == F \cup {filename, thumbgen_filename(filename)}
\* FileUploadField.populate_obj: the column and the directory afterwards
populate_obj(F, stored, form) ==
    LET data == FieldData(stored, form)
    IN  IF ~Falsy(stored) /\ form.delete
        THEN [photo |-> None, files |-> delete_file(F, stored)]
        ELSE IF data.kind = "FileStorage"
        THEN [photo |-> data.name,
              files |-> save_file(IF Falsy(stored) THEN F ELSE delete_file(F, stored),
                                  data.name)]
        ELSE [photo |-> stored, files |-> F]
\* old_photo != form.photo.data, old_photo a str
NotEqual(str, data) == data.kind # "str" \/ data.name # str
\* ProfessorModelView.on_model_change: it runs after populate_obj, so that
\* model.photo is the column as populate_obj left it.
on_model_change(F, model, data, is_created) ==
    IF ~is_created /\ ~Falsy(model.photo) /\ NotEqual(model.photo, data)
          /\ model.photo \in F
    THEN F \ {model.photo}
    ELSE F

\* POST /admin/professor/new/
ProfessorCreate(s, form) ==
    /\ pc = "serving"
    /\ is_accessible(s) => NextId(professors) \in ProfessorIds
    /\ LET id == NextId(professors)
           out == populate_obj(files, None, form)
           model == [id |-> id, name |-> "Dr. Jane Doe", photo |-> out.photo]
       IN  /\ professors' = IF is_accessible(s) THEN professors \cup {model}
                            ELSE professors
           /\ files' = IF is_accessible(s)
                       THEN on_model_change(out.files, model, FieldData(None, form), TRUE)
                       ELSE files
           /\ lastReq' = [PostReq(s, "professor", "new")
                             EXCEPT !.id = id, !.form = <<form>>]
    /\ lastResp' = IF ~is_accessible(s)
                   THEN inaccessible_callback(ViewUrl("professor", "new"))
                   ELSE Saved("professor", "Record was successfully created.")
    /\ failed' = 0
    /\ UNCHANGED <<pc, dbExists, adminUsers, labInfos, students, projects, publications,
                   session, pwSet, lastBoot>>

\* POST /admin/professor/edit/?id=
ProfessorEdit(s, id, form) ==
    /\ pc = "serving"
    /\ LET ok == is_accessible(s) /\ id \in Ids(professors)
           old == Get(professors, id)[1]
           out == populate_obj(files, old.photo, form)
           model == [old EXCEPT !.photo = out.photo]
       IN  /\ professors' = IF ok THEN {IF r.id = id THEN model ELSE r : r \in professors}
                            ELSE professors
           /\ files' = IF ok
                       THEN on_model_change(out.files, model,
                                            FieldData(old.photo, form), FALSE)
                       ELSE files
           /\ lastResp' = IF ~is_accessible(s)
                          THEN inaccessible_callback(ViewUrl("professor", "edit"))
                          ELSE IF ~ok THEN Missing("professor")
                          ELSE Saved("professor", "Record was successfully saved.")
    /\ lastReq' = [PostReq(s, "professor", "edit") EXCEPT !.id = id, !.form = <<form>>]
    /\ failed' = 0
    /\ UNCHANGED <<pc, dbExists, adminUsers, labInfos, students, projects, publications,
                   session, pwSet, lastBoot>>

\* POST /admin/professor/delete/: the row goes, its files stay.
ProfessorDelete(s, id) ==
    /\ pc = "serving"
    /\ LET ok == is_accessible(s) /\ id \in Ids(professors)
       IN  /\ professors' = IF ok THEN {r \in professors : r.id # id} ELSE professors
           /\ lastResp' = IF ~is_accessible(s)
                          THEN inaccessible_callback(ViewUrl("professor", "delete"))
                          ELSE IF ~ok THEN Missing("professor")
                          ELSE Saved("professor", "Record was successfully deleted.")
    /\ lastReq' = [PostReq(s, "professor", "delete") EXCEPT !.id = id]
    /\ failed' = 0
    /\ UNCHANGED <<pc, dbExists, adminUsers, labInfos, students, projects, publications,
                   session, pwSet, lastBoot, files>>

\* ------------------------------------------------------------ lab info
LabNames == {"DADL Lab", "Deep Learning Lab"}
LabInfoIds == {1, 2}

\* POST /admin/labinfo/new/
LabInfoCreate(s, lab_name) ==
    /\ pc = "serving"
    /\ LET ok == is_accessible(s) /\ can_create("labinfo")
           id == NextId(labInfos)
       IN  /\ ok => id \in LabInfoIds
           /\ labInfos' = IF ok THEN labInfos \cup {[id |-> id, lab_name |-> lab_name]}
                          ELSE labInfos
           /\ lastResp' = IF ~is_accessible(s)
                          THEN inaccessible_callback(ViewUrl("labinfo", "new"))
                          ELSE IF ~ok THEN Refused("labinfo")
                          ELSE Saved("labinfo", "Record was successfully created.")
           /\ lastReq' = [PostReq(s, "labinfo", "new") EXCEPT !.id = id]
    /\ failed' = 0
    /\ UNCHANGED <<pc, dbExists, adminUsers, professors, students, projects, publications,
                   session, pwSet, lastBoot, files>>

\* POST /admin/labinfo/edit/?id=
LabInfoEdit(s, id, lab_name) ==
    /\ pc = "serving"
    /\ LET ok == is_accessible(s) /\ id \in Ids(labInfos)
       IN  /\ labInfos' = IF ok
                          THEN {IF r.id = id THEN [r EXCEPT !.lab_name = lab_name] ELSE r :
                                   r \in labInfos}
                          ELSE labInfos
           /\ lastResp' = IF ~is_accessible(s)
                          THEN inaccessible_callback(ViewUrl("labinfo", "edit"))
                          ELSE IF ~ok THEN Missing("labinfo")
                          ELSE Saved("labinfo", "Record was successfully saved.")
    /\ lastReq' = [PostReq(s, "labinfo", "edit") EXCEPT !.id = id]
    /\ failed' = 0
    /\ UNCHANGED <<pc, dbExists, adminUsers, professors, students, projects, publications,
                   session, pwSet, lastBoot, files>>

\* POST /admin/labinfo/delete/
LabInfoDelete(s, id) ==
    /\ pc = "serving"
    /\ LET allowed == is_accessible(s) /\ can_delete("labinfo")
           ok == allowed /\ id \in Ids(labInfos)
       IN  /\ labInfos' = IF ok THEN {r \in labInfos : r.id # id} ELSE labInfos
           /\ lastResp' = IF ~is_accessible(s)
                          THEN inaccessible_callback(ViewUrl("labinfo", "delete"))
                          ELSE IF ~allowed THEN Refused("labinfo")
                          ELSE IF ~ok THEN Missing("labinfo")
                          ELSE Saved("labinfo", "Record was successfully deleted.")
    /\ lastReq' = [PostReq(s, "labinfo", "delete") EXCEPT !.id = id]
    /\ failed' = 0
    /\ UNCHANGED <<pc, dbExists, adminUsers, professors, students, projects, publications,
                   session, pwSet, lastBoot, files>>

\* ------------------------------------------------------ the public pages
\* Student.query.filter_by(is_current=c, degree_type=d).all()
StudentsBy(c, d) ==
    LET Test(r) == r.is_current = c /\ r.degree_type = d
    IN  SelectSeq(All(students), Test)
\* Project.query.filter_by(status=st).all()
ProjectsBy(st) ==
    LET Test(r) == r.status = st IN SelectSeq(All(projects), Test)

\* order_by(Publication.year.desc()): a precedes b when its year is greater;
\* SQLite puts the rows with a NULL year last.  Rows of equal year keep
\* their id order (SQL leaves their order open).
YearBefore_Asc(a, b) == b.year # <<>> /\ (a.year = <<>> \/ a.year[1] < b.year[1])
YearBefore(a, b) == a.year # <<>> /\ (b.year = <<>> \/ a.year[1] > b.year[1])
RECURSIVE OrderByYearDesc(_)
OrderByYearDesc(q) ==
    IF q = <<>> THEN <<>>
    ELSE LET h == Head(q)
             rest == OrderByYearDesc(Tail(q))
             Pre(r) == YearBefore(r, h)
             Post(r) == ~YearBefore(r, h)
         IN  SelectSeq(rest, Pre) \o <<h>> \o SelectSeq(rest, Post)
\* limit(n)
Limit(q, n) == SubSeq(q, 1, IF Len(q) < n THEN Len(q) ELSE n)
\* Publication.query.filter_by(is_featured=True)
\*     .order_by(Publication.year.desc()).limit(5).all()
FeaturedPublications ==
    LET Test(r) == r.is_featured = TRUE
    IN  Limit(OrderByYearDesc(SelectSeq(All(publications), Test)), FeaturedLimit)

\* home: what the page is rendered with.
HomeCtx ==
    [lab_info |-> First(labInfos),
     professor |-> First(professors),
     current_phd |-> StudentsBy(TRUE, "PhD"),
     current_masters |-> StudentsBy(TRUE, "Masters"),
     former_phd |-> StudentsBy(FALSE, "PhD"),
     former_masters |-> StudentsBy(FALSE, "Masters"),
     ongoing_projects |-> ProjectsBy("Ongoing"),
     completed_projects |-> ProjectsBy("Completed"),
     featured_publications |-> FeaturedPublications]

\* GET /
Home(s) ==
    /\ pc = "serving"
    /\ lastResp' = Render("single_page.html", NoFlash, HomeCtx,
                          {"labinfo", "professor", "student", "project", "publication"})
    /\ lastReq' = Req("home", "GET", s, "/")
    /\ failed' = 0
    /\ UNCHANGED <<pc, dbExists, tables, session, pwSet, lastBoot, files>>

\* The administrator logs in with the account's password.
Login == AdminLogin(AdminBrowser, "POST", "admin", DefaultPassword, None)

NextStudents ==
    \/ \E answer \in {"y", "n"}, salt \in Salts : Main(answer, salt)
    \/ Login
    \/ \E degree_type \in DegreeInputs, is_current \in BOOLEAN :
            StudentCreate(AdminBrowser, degree_type, is_current)
    \/ \E id \in StudentIds, degree_type \in DegreeInputs, is_current \in BOOLEAN :
            StudentEdit(AdminBrowser, id, degree_type, is_current)
    \/ \E id \in StudentIds : StudentDelete(AdminBrowser, id)
    \/ Home(AdminBrowser)

SpecStudents == Init /\ [][NextStudents]_vars

NextPublications ==
    \/ \E answer \in {"y", "n"}, salt \in Salts : Main(answer, salt)
    \/ Login
    \/ \E form \in FeaturedForms : PublicationCreate(AdminBrowser, form)
    \/ Home(AdminBrowser)

SpecPublications == Init /\ [][NextPublications]_vars

NextBibtex ==
    \/ \E answer \in {"y", "n"}, salt \in Salts : Main(answer, salt)
    \/ Login
    \/ \E form \in BibForms :
          /\ NextId(publications) <= MaxCitations
          /\ PublicationCreate(AdminBrowser, form)
    \/ \E id \in 1..MaxCitations, form \in BibForms : PublicationEdit(AdminBrowser, id, form)
    \/ \E id \in 1..MaxCitations : PublicationDelete(AdminBrowser, id)

SpecBibtex == Init /\ [][NextBibtex]_vars

NextProfessors ==
    \/ \E answer \in {"y", "n"}, salt \in Salts : Main(answer, salt)
    \/ Login
    \/ \E form \in ProfessorForms : ProfessorCreate(AdminBrowser, form)
    \/ \E id \in ProfessorIds, form \in ProfessorForms : ProfessorEdit(AdminBrowser, id, form)
    \/ \E id \in ProfessorIds : ProfessorDelete(AdminBrowser, id)

SpecProfessors == Init /\ [][NextProfessors]_vars

NextLabInfo ==
    \/ \E answer \in {"y", "n"}, salt \in Salts : Main(answer, salt)
    \/ Login
    \/ \E s \in Sessions : AdminLogout(s)
    \/ \E s \in Sessions, lab_name \in LabNames : LabInfoCreate(s, lab_name)
    \/ \E s \in Sessions, id \in LabInfoIds, lab_name \in LabNames :
          LabInfoEdit(s, id, lab_name)
    \/ \E s \in Sessions, id \in LabInfoIds : LabInfoDelete(s, id)
    \/ \E s \in Sessions, entity \in Entities, op \in Ops, method \in {"GET", "POST"} :
          AdminView(s, entity, op, method)
    \/ \E id \in StudentIds : StudentDelete(AdminBrowser, id)
    \/ \E id \in ProjectIds : ProjectDelete(AdminBrowser, id)

SpecLabInfo == Init /\ [][NextLabInfo]_vars

NextProjects ==
    \/ \E answer \in {"y", "n"}, salt \in Salts : Main(answer, salt)
    \/ Login
    \/ \E form \in ProjectForms : ProjectCreate(AdminBrowser, form)
    \/ \E id \in ProjectIds, form \in ProjectForms : ProjectEdit(AdminBrowser, id, form)
    \/ \E id \in ProjectIds : ProjectDelete(AdminBrowser, id)
    \/ \E s \in Sessions, id \in 1..(MaxProjects + 1) : ProjectDetail(s, id)

SpecProjects == Init /\ [][NextProjects]_vars

\* ------------------------------------------------- the login claims
\* The step from a state to the next handled a request (lastReq' names it).
Handled == pc = "serving" /\ pc' = "serving"
LoginPost == lastReq.route = "admin_login" /\ lastReq.method = "POST"
\* The request came in a session that was not logged in.
WasAnonymous == lastReq.auth = NoUser
\* The account that username and password name: the password is the one the
\* account was last given.
Account(username, password) ==
    {r \in adminUsers : r.username = username /\ pwSet[r.id] = password}
Strings(S) == S \ {None}

\* C1: after set_password(p), check_password(q) is true exactly when q = p;
\* a POST /admin-login that names an existing user establishes a session
\* only with the password that user was last given.
C1_PasswordVerifies ==
    /\ \A r \in adminUsers, p \in Strings(Passwords), q \in Strings(Passwords),
          salt \in Salts :
            check_password(set_password(r, p, salt), q) <=> (q = p)
    /\ \A r \in adminUsers, q \in Strings(Passwords) :
            check_password(r, q) <=> (q = pwSet[r.id])
    /\ (LoginPost /\ WasAnonymous /\ session[lastReq.s] # NoUser)
          => \E r \in Account(lastReq.username, lastReq.password) :
                session[lastReq.s] = r.id
C1_Witness ==
    /\ LoginPost /\ WasAnonymous /\ session[lastReq.s] # NoUser
    /\ lastReq.password = DefaultPassword

\* C2: a request to the admin index or to a view of an entity, made in a
\* session with no authenticated identity, reads and writes no table and is
\* answered by a redirect to the login page with next = the requested URL.
AdminRequest == lastReq.route \in {"admin.index", "admin.view"}
C2_AnonymousIsRedirected ==
    /\ [](AdminRequest /\ WasAnonymous
            => /\ lastResp = Redirect(LoginPath, lastReq.url, NoFlash)
               /\ lastResp.reads = {} /\ lastResp.writes = {})
    /\ [][Handled /\ AdminRequest' /\ WasAnonymous'
            => tables' = tables /\ session' = session]_vars
C2_Witness ==
    /\ AdminRequest /\ WasAnonymous
    /\ lastReq.entity = "publication" /\ lastReq.op = "delete"
    /\ lastResp.next = ViewUrl("publication", "delete")

\* C3: failed logins leave the session unauthenticated and do not count
\* against a later attempt: a POST with a correct username and password in a
\* session that is not logged in logs that user in, however many attempts
\* failed before, and the session keeps that identity, which every request
\* sees, until it logs out.
FailedAttempt ==
    /\ LoginPost /\ WasAnonymous
    /\ Account(lastReq.username, lastReq.password) = {}
C3_FailedLoginsDoNotLock ==
    /\ [](FailedAttempt => session[lastReq.s] = NoUser)
    /\ [](LoginPost /\ WasAnonymous
            => \A r \in Account(lastReq.username, lastReq.password) :
                  session[lastReq.s] = r.id)
    /\ [](pc = "serving"
            => \A s \in Sessions : session[s] # NoUser
                  => /\ is_authenticated(s)
                     /\ current_user(s)[1].id = session[s])
    /\ [](lastReq.route = "admin_status" /\ ~WasAnonymous
            => lastResp = Text(<<"Logged in as", current_user(lastReq.s)[1].name,
                                 lastReq.auth>>))
    /\ [][\A s \in Sessions : session[s] # NoUser /\ session'[s] # session[s]
            => lastReq'.route = "admin_logout" /\ lastReq'.s = s]_vars
C3_Witness ==
    /\ LoginPost /\ WasAnonymous /\ session[lastReq.s] # NoUser
    /\ failed = MaxFailed

\* C4: a logout by an authenticated session clears its identity, and the
\* session stays unauthenticated (admin-status says so, the admin pages
\* redirect to the login page) until a successful login; a logout by a
\* session that is not logged in changes neither the session's identity nor
\* a table and is redirected to the login page.
Logout == lastReq.route = "admin_logout"
C4_LogoutClearsSession ==
    /\ [](Logout => /\ session[lastReq.s] = NoUser
                    /\ lastResp.kind = "redirect" /\ lastResp.page = LoginPath)
    /\ [](lastReq.route = "admin_status" /\ WasAnonymous
            => lastResp = Text(<<"Not logged in">>))
    /\ [](AdminRequest /\ WasAnonymous
            => lastResp.kind = "redirect" /\ lastResp.page = LoginPath)
    /\ [][\A s \in Sessions : session[s] = NoUser /\ session'[s] # NoUser
            => /\ LoginPost' /\ lastReq'.s = s
               /\ \E r \in Account(lastReq'.username, lastReq'.password) :
                     session'[s] = r.id]_vars
    /\ [][Handled /\ Logout' /\ WasAnonymous'
            => session' = session /\ tables' = tables]_vars
C4_Witness == Logout /\ ~WasAnonymous /\ session[lastReq.s] = NoUser

\* C5: a POST with an unknown username and a POST with an existing username
\* and a wrong password (both fields non-empty) have the same outcome: the
\* same flashed message, the login page, no session, no table changed.
UnknownUser(username, password) ==
    ~Falsy(username) /\ ~Falsy(password) /\ AdminByUsername(username) = NoRow
WrongPassword(username, password) ==
    /\ ~Falsy(username) /\ ~Falsy(password)
    /\ AdminByUsername(username) # NoRow
    /\ pwSet[AdminByUsername(username)[1].id] # password
C5_UnknownUserLikeWrongPassword ==
    /\ [](\A u1 \in Usernames, p1 \in Passwords : UnknownUser(u1, p1) =>
            \A u2 \in Usernames, p2 \in Passwords : WrongPassword(u2, p2) =>
              \A s \in Sessions, n1 \in NextArgs, n2 \in NextArgs :
                admin_login(s, "POST", u1, p1, n1) = admin_login(s, "POST", u2, p2, n2))
    /\ [](LoginPost /\ WasAnonymous
          /\ (UnknownUser(lastReq.username, lastReq.password)
              \/ WrongPassword(lastReq.username, lastReq.password))
            => /\ lastResp = LoginPage(Flash("error", MsgInvalid, None))
               /\ session[lastReq.s] = NoUser)
    /\ [][Handled /\ LoginPost' => tables' = tables]_vars
C5_Witness ==
    /\ LoginPost /\ WasAnonymous
    /\ UnknownUser(lastReq.username, lastReq.password)
    /\ \E u \in Usernames, p \in Passwords : WrongPassword(u, p)

\* C6: after a successful POST /admin-login the response redirects to the
\* admin page named by 'next' or, with no 'next', to the admin index, and
\* never to anything but an admin page.
LoggedIn == LoginPost /\ WasAnonymous /\ session[lastReq.s] # NoUser
C6_RedirectsToAdminPage ==
    LoggedIn
      => /\ lastResp.kind = "redirect"
         /\ IsAdminPage(lastResp.page)
         /\ Falsy(lastReq.next) => lastResp.page = IndexUrl
         /\ IsAdminPage(lastReq.next) => lastResp.page = lastReq.next

\* C7: the bootstrap on an empty store ends normally with one AdminUser,
\* Professor, LabInfo, Student and Project committed; run on that store
\* again it adds nothing.
Seeded ==
    [adminUsers |-> 1, professors |-> 1, labInfos |-> 1, students |-> 1,
     projects |-> 1, publications |-> 0]
C7_BootstrapSeedsOnce ==
    /\ (lastBoot.ran /\ lastBoot.fresh /\ lastBoot.before = Count(EmptyStore))
          => ~lastBoot.raised /\ pc # "crashed" /\ lastBoot.after = Seeded
    /\ (lastBoot.ran /\ lastBoot.before = Seeded)
          => ~lastBoot.raised /\ lastBoot.after = Seeded

\* --------------------------------------------------- the public pages' claims
HomeRequest == lastReq.route = "home"
Groups ==
    <<lastResp.ctx.current_phd, lastResp.ctx.current_masters,
      lastResp.ctx.former_phd, lastResp.ctx.former_masters>>
\* How often row r occurs in the four groups together.
Occurrences(r) ==
    Cardinality({<<g, i>> \in (1..4) \X (1..Cardinality(students)) :
                    i <= Len(Groups[g]) /\ Groups[g][i] = r})

\* C8: home() returns four groups of students that are pairwise disjoint and
\* together hold every Student row exactly once.
C8_StudentsPartitioned ==
    HomeRequest
      => /\ \A g \in 1..4, h \in 1..4 :
                g # h => Range(Groups[g]) \cap Range(Groups[h]) = {}
         /\ UNION {Range(Groups[g]) : g \in 1..4} = students
         /\ \A r \in students : Occurrences(r) = 1
         /\ \A g \in 1..4 : Len(Groups[g]) = Cardinality(Range(Groups[g]))
C8_Witness ==
    /\ HomeRequest
    /\ \A g \in 1..4 : Groups[g] # <<>>
    /\ Cardinality(students) = 4

\* C9: the featured_publications of home() holds only featured rows, as
\* many as there are up to five, ordered by year from the greatest down, and
\* no featured row left out has a year greater than a year in the list.
FeaturedList == lastResp.ctx.featured_publications
FeaturedRows == {r \in publications : r.is_featured = TRUE}
\* Row a has a year, row b has a year, and a's is the greater.
YearGreater(a, b) == a.year # <<>> /\ b.year # <<>> /\ a.year[1] > b.year[1]
C9_FiveMostRecentFeatured ==
    HomeRequest
      => /\ Range(FeaturedList) \subseteq FeaturedRows
         /\ Len(FeaturedList) = Min({FeaturedLimit, Cardinality(FeaturedRows)})
         /\ Cardinality(Range(FeaturedList)) = Len(FeaturedList)
         /\ \A i \in DOMAIN FeaturedList, j \in DOMAIN FeaturedList :
                i < j => ~YearGreater(FeaturedList[j], FeaturedList[i])
         /\ \A r \in FeaturedRows \ Range(FeaturedList), i \in DOMAIN FeaturedList :
                ~YearGreater(r, FeaturedList[i])
C9_Witness ==
    /\ HomeRequest
    /\ Cardinality(FeaturedRows) > FeaturedLimit
    /\ \E r \in FeaturedRows \ Range(FeaturedList) : r.year = <<2023>>
    /\ FeaturedList[1].year = <<2024>> /\ FeaturedList[FeaturedLimit].year = <<2023>>

\* C10: project_detail(id) signals not-found when no Project has that id,
\* and writes nothing; when the project exists, additional_images is image2,
\* image3, image4 in that order without the unset ones, and holds the value
\* of image1 only where image2, image3 or image4 holds that same value.
DetailRequest == lastReq.route = "project_detail"
Unless(img) == IF Falsy(img) THEN <<>> ELSE <<img>>
DetailFound == DetailRequest /\ lastReq.id \in Ids(projects)
Detailed == CHOOSE r \in projects : r.id = lastReq.id
SignalsNotFound ==
    [](DetailRequest /\ lastReq.id \notin Ids(projects) => lastResp = NotFound)
WritesNothing ==
    [][Handled /\ DetailRequest' => tables' = tables /\ session' = session]_vars
SecondaryImages ==
    [](DetailFound
         => /\ lastResp.kind = "render"
            /\ lastResp.ctx.project = Detailed
            /\ lastResp.ctx.additional_images =
                  Unless(Detailed.image2) \o Unless(Detailed.image3)
                     \o Unless(Detailed.image4))
C10_ProjectDetail ==
    /\ SignalsNotFound
    /\ WritesNothing
    /\ SecondaryImages
    /\ [](DetailFound
            /\ Detailed.image1 \notin {Detailed.image2, Detailed.image3, Detailed.image4}
            => Detailed.image1 \notin Range(lastResp.ctx.additional_images))
C10_Witness ==
    /\ DetailFound
    /\ lastResp.ctx.project.image1 = "a.png"
    /\ lastResp.ctx.additional_images = <<"b.png", "c.png", "d.png">>
\* C10 as stated: additional_images never contains image1.
C10_NeverContainsImage1 ==
    /\ SignalsNotFound
    /\ WritesNothing
    /\ SecondaryImages
    /\ [](DetailFound => Detailed.image1 \notin Range(lastResp.ctx.additional_images))
C10_WitnessNotFound ==
    DetailRequest /\ lastReq.id \notin Ids(projects) /\ projects # {}

\* ------------------------------------------------- the citation claims
\* A save of a publication by a logged-in administrator that went through.
PublicationSaved ==
    /\ lastReq.entity = "publication" /\ lastReq.op \in {"new", "edit"}
    /\ lastReq.auth # NoUser
    /\ lastReq.id \in Ids(publications)
Posted == lastReq.form[1]
SavedRow == CHOOSE r \in publications : r.id = lastReq.id
\* A well-formed citation with a title, an author and a year.
WellFormed(text) ==
    /\ text.parse = "entry"
    /\ text.entry.title # <<>> /\ text.entry.author # <<>>
    /\ IsInt(text.entry.year)

\* C11: after a save with a well-formed citation holding title, author and
\* year, the stored title, authors and year are the citation's, the title
\* without braces, whatever the form gave for them.
C11_WellFormedCitationParsed ==
    PublicationSaved /\ WellFormed(Posted.bibtex)
    => /\ SavedRow.bibtex = Posted.bibtex
       /\ SavedRow.title = StripBraces(Posted.bibtex.entry.title)
       /\ \A i \in DOMAIN SavedRow.title : SavedRow.title[i] \notin {"{", "}"}
       /\ SavedRow.authors = Posted.bibtex.entry.author
       /\ SavedRow.year = <<IntOf(Posted.bibtex.entry.year)>>
C11_Witness ==
    /\ PublicationSaved /\ lastReq.op = "edit"
    /\ Posted = Filled(Cite(Y2024))
    /\ SavedRow.title = <<"A">> /\ SavedRow.authors = <<"X">> /\ SavedRow.year = <<2024>>

\* The columns parse_bibtex assigns.
Parsed(r) ==
    [title |-> r.title, authors |-> r.authors, venue |-> r.venue, year |-> r.year,
     url |-> r.url]
\* parse_bibtex fails: the parser raises or yields no entry, or int() raises.
ConversionRaises(text) ==
    text.parse = "entry" /\ text.entry.year # <<>> /\ ~IsInt(text.entry.year)
ParseFails(text) == text.parse \in {"raises", "empty"} \/ ConversionRaises(text)
\* The row that the request took up, before the save.
Stored == CHOOSE r \in publications : r.id = lastReq'.id

\* C12: when parse_bibtex fails on the citation text, title, authors, venue,
\* year and url keep their values (those stored before an edit that leaves
\* these columns as they were, those given to a create), and the save
\* commits.
C12_FailedParseKeepsFields ==
    [][PublicationSaved' /\ ParseFails(Posted'.bibtex)
         => /\ lastReq'.op = "new" => Parsed(SavedRow') = Parsed(Posted')
            /\ lastReq'.op = "edit" /\ Parsed(Posted') = Parsed(Stored)
                 => Parsed(SavedRow') = Parsed(Stored)
            /\ SavedRow'.bibtex = Posted'.bibtex
            /\ lastResp'.writes = {"publication"}]_vars

\* C13: after parse_bibtex on an entry that parses, year is the integer the
\* entry's year field spells when it is numeric, and none when the field is
\* absent or not numeric, whatever year the record held.
C13_YearCoerced ==
    PublicationSaved /\ Posted.bibtex.parse = "entry"
    => SavedRow.year = IF IsInt(Posted.bibtex.entry.year)
                       THEN <<IntOf(Posted.bibtex.entry.year)>>
                       ELSE <<>>

\* ---------------------------------------------------- the photo claim
\* An edit of a professor by a logged-in administrator that went through.
ProfessorSaved ==
    /\ lastReq.entity = "professor" /\ lastReq.op = "edit"
    /\ lastReq.auth # NoUser
    /\ lastReq.id \in Ids(professors)
Superseded == (CHOOSE r \in professors : r.id = lastReq'.id).photo
NewPhoto == (CHOOSE r \in professors' : r.id = lastReq'.id).photo

\* C14: after an edit that replaces a professor's photo with a newly
\* uploaded file, the superseded file is gone from static/uploads/professor
\* and the file the photo column names exists; an edit that does not change
\* the photo deletes no file.
C14_PhotoReplaced ==
    [][ProfessorSaved'
         => /\ ~Falsy(Superseded) /\ lastReq'.form[1].photo # None /\ NewPhoto # Superseded
                 => Superseded \notin files' /\ NewPhoto \in files'
            /\ lastReq'.form[1] = ProfessorForm(None, FALSE)
                 => NewPhoto = Superseded /\ files \subseteq files']_vars

\* -------------------------------------------------- the lab info claim
\* C15: no operation of the admin backend, by a session logged in or not,
\* changes the number of LabInfo rows: the view refuses create and delete
\* and edits only a row that exists.
C15_LabInfoCountKept ==
    [][Handled => /\ Cardinality(labInfos') = Cardinality(labInfos)
                  /\ Ids(labInfos') = Ids(labInfos)]_vars
C15_Witness ==
    /\ pc = "serving"
    /\ lastReq.entity = "labinfo" /\ lastReq.op \in {"new", "delete"}
    /\ lastReq.method = "POST" /\ lastReq.auth # NoUser
    /\ lastResp = Refused("labinfo")
    /\ labInfos = {[id |-> 1, lab_name |-> "Deep Learning Lab"]}

====
